---- MODULE Spec2Model ----
(***************************************************************************)
(* GoFlow2Influxdb (src/main.rs): reads flow records, one JSON object per  *)
(* line, keeps those whose source address is private, batches them and     *)
(* writes each batch to InfluxDB with a bounded number of retries.         *)
(*                                                                         *)
(* Text (environment values, addresses, lines) is a sequence of one-       *)
(* character strings, so that parsing is computed and not assumed.         *)
(***************************************************************************)
EXTENDS Integers, Sequences, FiniteSets, TLC

VARIABLES pc, config, nread, batch, total_processed, filtered_out,
          batch_to_write, attempt, site, ndispatch, exit, log

vars == <<pc, config, nread, batch, total_processed, filtered_out,
          batch_to_write, attempt, site, ndispatch, exit, log>>

(***************************************************************************)
(* Bounds of the model.                                                    *)
(***************************************************************************)
\* Longest input stream explored under Spec.
MaxLines == 3
\* Longest input stream explored under SpecFilter.
MaxFilterLines == 1
\* Longest input stream explored under SpecTransform.
MaxTransformLines == 1
\* Records already read, all out of scope, where SpecProgress starts.
ProgressStart == 998
\* Lines SpecProgress reads from there.
MaxProgressLines == 2

(***************************************************************************)
(* Text helpers.                                                           *)
(***************************************************************************)
Digit == {"0", "1", "2", "3", "4", "5", "6", "7", "8", "9"}

DigitVal(c) ==
    CASE c = "0" -> 0 [] c = "1" -> 1 [] c = "2" -> 2 [] c = "3" -> 3
      [] c = "4" -> 4 [] c = "5" -> 5 [] c = "6" -> 6 [] c = "7" -> 7
      [] c = "8" -> 8 [] c = "9" -> 9

DigitChar(d) == <<"0", "1", "2", "3", "4", "5", "6", "7", "8", "9">>[d + 1]

AllDigits(s) == \A i \in 1..Len(s) : s[i] \in Digit

RECURSIVE DecimalValue(_)
DecimalValue(s) ==
    IF s = <<>> THEN 0
    ELSE 10 * DecimalValue(SubSeq(s, 1, Len(s) - 1)) + DigitVal(s[Len(s)])

\* Decimal rendering of a natural number (how the collector prints an octet).
RECURSIVE Decimal(_)
Decimal(n) ==
    IF n < 10 THEN <<DigitChar(n)>>
    ELSE Decimal(n \div 10) \o <<DigitChar(n % 10)>>

\* The pieces of s between occurrences of sep.
RECURSIVE Split(_, _)
Split(s, sep) ==
    IF \A i \in 1..Len(s) : s[i] # sep THEN <<s>>
    ELSE LET k == CHOOSE i \in 1..Len(s) :
                      s[i] = sep /\ \A j \in 1..(i - 1) : s[j] # sep
         IN  <<SubSeq(s, 1, k - 1)>> \o Split(SubSeq(s, k + 1, Len(s)), sep)

Whitespace == {" ", "\t", "\r"}

\* Variant: the emptiness test without the trim.
TrimIsEmpty_NoTrim(s) == s = <<>>

\* str::trim().is_empty()
TrimIsEmpty(s) == \A i \in 1..Len(s) : s[i] \in Whitespace

(***************************************************************************)
(* Config::from_env.                                                       *)
(***************************************************************************)
Missing == <<"<unset>">>
ParseError == -1

\* str::parse for the unsigned integer types: an optional '+', then one or
\* more decimal digits; anything else (a '-', a letter, nothing) is an error.
ParseUnsigned(s) ==
    LET body == IF s # <<>> /\ s[1] = "+" THEN Tail(s) ELSE s
    IN  IF body # <<>> /\ AllDigits(body) THEN DecimalValue(body) ELSE ParseError

\* env::var(..).unwrap_or_else(|_| default)
UnwrapOr(v, default) == IF v = Missing THEN default ELSE v

DefaultInputFile == <<"/", "d", "e", "v", "/", "s", "t", "d", "i", "n">>
DefaultBatchSize == <<"1", "0", "0">>
DefaultFlushInterval == <<"1", "0">>
DefaultRetryAttempts == <<"3">>
DefaultRetryDelay == <<"1", "0", "0", "0">>

\* The Config the environment env yields, with ok = FALSE where from_env
\* returns Err (a required variable is unset or a number does not parse).
from_env(env) ==
    LET bs == ParseUnsigned(UnwrapOr(env.BATCH_SIZE, DefaultBatchSize))
        fi == ParseUnsigned(UnwrapOr(env.FLUSH_INTERVAL_SECONDS, DefaultFlushInterval))
        ra == ParseUnsigned(UnwrapOr(env.RETRY_ATTEMPTS, DefaultRetryAttempts))
        rd == ParseUnsigned(UnwrapOr(env.RETRY_DELAY_MS, DefaultRetryDelay))
    IN  [ok |-> /\ env.INFLUXDB_URL # Missing
                /\ env.INFLUXDB_TOKEN # Missing
                /\ env.INFLUXDB_ORG # Missing
                /\ env.INFLUXDB_BUCKET # Missing
                /\ bs # ParseError /\ fi # ParseError
                /\ ra # ParseError /\ rd # ParseError,
         goflow2_input_file |-> UnwrapOr(env.GOFLOW2_INPUT_FILE, DefaultInputFile),
         batch_size |-> bs,
         flush_interval_seconds |-> fi,
         retry_attempts |-> ra,
         retry_delay_ms |-> rd]

\* The Config value before from_env has run.
NoConfig ==
    [ok |-> FALSE, goflow2_input_file |-> <<>>, batch_size |-> 0,
     flush_interval_seconds |-> 0, retry_attempts |-> 0, retry_delay_ms |-> 0]

(***************************************************************************)
(* is_private_ip.                                                          *)
(***************************************************************************)
NoAddr == <<>>

\* One octet as Ipv4Addr::from_str reads it: one to three digits, no
\* leading zero, at most 255.
OctetOk(p) ==
    /\ Len(p) \in 1..3
    /\ AllDigits(p)
    /\ (Len(p) > 1 => p[1] # "0")
    /\ DecimalValue(p) <= 255

\* Ipv4Addr::from_str: the four octets, or NoAddr for Err.
ParseIpv4(s) ==
    LET parts == Split(s, ".")
    IN  IF Len(parts) = 4 /\ \A i \in 1..4 : OctetOk(parts[i])
        THEN [i \in 1..4 |-> DecimalValue(parts[i])]
        ELSE NoAddr

RECURSIVE Pow2(_)
Pow2(n) == IF n = 0 THEN 1 ELSE 2 * Pow2(n - 1)

\* Ipv4Net::contains: ip and the network agree on the first prefix bits
\* (octet i holds bits 8(i-1)+1 .. 8i of the address).
NetContains(net, prefix, ip) ==
    \A i \in 1..4 :
        LET above == prefix - 8 * (i - 1)
            bits  == IF above < 0 THEN 0 ELSE IF above > 8 THEN 8 ELSE above
        IN  ip[i] \div Pow2(8 - bits) = net[i] \div Pow2(8 - bits)

\* Variant: the second range written with a 16-bit prefix.
private_ranges_Narrow ==
    << [net |-> <<10, 0, 0, 0>>,    prefix |-> 8],
       [net |-> <<172, 16, 0, 0>>,  prefix |-> 16],
       [net |-> <<192, 168, 0, 0>>, prefix |-> 16] >>

private_ranges ==
    << [net |-> <<10, 0, 0, 0>>,    prefix |-> 8],
       [net |-> <<172, 16, 0, 0>>,  prefix |-> 12],
       [net |-> <<192, 168, 0, 0>>, prefix |-> 16] >>

is_private_ip(ip_str) ==
    LET ip == ParseIpv4(ip_str)
    IN  IF ip # NoAddr
        THEN \E r \in 1..Len(private_ranges) :
                 NetContains(private_ranges[r].net, private_ranges[r].prefix, ip)
        ELSE FALSE

(***************************************************************************)
(* Records, write units and the dispatcher's decisions.                    *)
(***************************************************************************)
\* serde_json::from_str::<FlowData>(&line): the decoded record, ok = FALSE
\* for Err. The JSON text itself is not modelled: a line carries its decoding.
from_str(line) == line.json

\* A u64 is its four 16-bit limbs, the most significant first; an i64 is a
\* sign and the limbs of its magnitude.
LimbBase == 65536

U64Zero == <<0, 0, 0, 0>>

\* limbs + 1 modulo 2^64.
RECURSIVE AddOne(_)
AddOne(limbs) ==
    IF limbs = <<>> THEN <<>>
    ELSE LET hi == SubSeq(limbs, 1, Len(limbs) - 1)
             lo == limbs[Len(limbs)]
         IN  IF lo + 1 < LimbBase THEN Append(hi, lo + 1)
             ELSE Append(AddOne(hi), 0)

\* 2^64 - u for u > 0: the complement of every bit, plus one.
Negate(u) == AddOne([i \in 1..Len(u) |-> LimbBase - 1 - u[i]])

\* Variant: the conversion keeps the magnitude whatever the top bit.
CastI64_Wide(u) == [neg |-> FALSE, mag |-> u]

\* `u as i64` for a u64: the same 64 bits read in two's complement, so a
\* value with the top bit set comes out as u - 2^64.
CastI64(u) ==
    IF 2 * u[1] < LimbBase
    THEN [neg |-> FALSE, mag |-> u]
    ELSE [neg |-> TRUE, mag |-> Negate(u)]

\* The ports, sequence_num, sampling_rate, in_if and out_if are u16 or u32:
\* `as i64` keeps their value. sequence_num stands for them.
flow_to_datapoint(flow) ==
    [measurement |-> "netflow",
     src_addr |-> flow.src_addr,
     sequence_num |-> flow.sequence_num,
     bytes |-> CastI64(flow.bytes),
     packets |-> CastI64(flow.packets),
     time_flow_start_ns |-> CastI64(flow.time_flow_start_ns),
     time_flow_end_ns |-> CastI64(flow.time_flow_end_ns),
     timestamp |-> CastI64(flow.time_received_ns)]

\* Variant: the batch is flushed once it exceeds the capacity.
IsFull_Strict(b, cap) == Len(b) > cap

\* batch.len() >= config.batch_size
IsFull(b, cap) == Len(b) >= cap

\* Variant: the drain leaves the newest unit out of what it hands over.
Drain_DropsLast(b) == [taken |-> SubSeq(b, 1, Len(b) - 1), left |-> <<>>]

\* Variant: the records are taken last first.
Drain_Reversed(b) ==
    [taken |-> [i \in 1..Len(b) |-> b[Len(b) + 1 - i]], left |-> <<>>]

\* Variant: the records taken stay in the batch as well.
Drain_KeepsAll(b) == [taken |-> b, left |-> b]

\* batch.drain(..).collect(): everything is taken, nothing is left.
Drain(b) == [taken |-> b, left |-> <<>>]

\* The range test of `for attempt in 1..=retry_attempts`.
InRange(a, n) == a <= n

\* attempt == retry_attempts
IsLastAttempt(a, n) == a = n

\* Variant: the write call sends the batch without its first unit.
Payload_DropsFirst(b) == Tail(b)

\* stream::iter(batch.clone()): what one write call sends.
Payload(b) == b

\* Variant: the failure names the batch length where the attempts belong.
DispatchError_BatchLen(b, n, e) == [attempts |-> Len(b), error |-> e]

\* anyhow!("Failed to write batch after {} attempts: {}", retry_attempts, e)
DispatchError(b, n, e) == [attempts |-> n, error |-> e]

\* Variant: the retry wait uses the flush interval.
RetryDelay_AsPace(cfg) == cfg.flush_interval_seconds * 1000

\* Duration::from_millis(retry_delay_ms)
RetryDelay(cfg) == cfg.retry_delay_ms

\* Duration::from_millis(config.flush_interval_seconds * 1000)
PaceDelay(cfg) == cfg.flush_interval_seconds * 1000

\* total_processed % 1000 == 0
ProgressDue(n) == n % 1000 = 0

Progress(lg) ==
    IF ProgressDue(total_processed')
    THEN Append(lg, [ev |-> "progress", processed |-> total_processed',
                     filtered |-> filtered_out', pending |-> Len(batch')])
    ELSE lg

\* Variant: the summary reports the in-scope records as its total.
Summary_InScopeTotal(lg) ==
    Append(lg, [ev |-> "summary", total |-> total_processed - filtered_out,
                filtered |-> filtered_out])

Summary(lg) ==
    Append(lg, [ev |-> "summary", total |-> total_processed,
                filtered |-> filtered_out])

(***************************************************************************)
(* State.                                                                  *)
(*   pc       where main is suspended: "start", "reading" (next_line),     *)
(*            "write" (client.write), "retry_sleep", "pacing", or ended:   *)
(*            "stopped" (Ok), "fatal" (Err), "panic"                       *)
(*   site     the call of write_batch_with_retry in progress:              *)
(*            "threshold" (line 214) or "final" (line 244)                 *)
(*   log      everything observable so far, in order                       *)
(***************************************************************************)
Init ==
    /\ pc = "start"
    /\ config = NoConfig
    /\ nread = 0
    /\ batch = <<>>
    /\ total_processed = 0
    /\ filtered_out = 0
    /\ batch_to_write = <<>>
    /\ attempt = 0
    /\ site = "none"
    /\ ndispatch = 0
    /\ exit = "running"
    /\ log = <<>>

\* main, lines 166-192: load the configuration and open the input.
Startup(env, open_ok) ==
    /\ pc = "start"
    /\ LET cfg == from_env(env)
       IN  IF ~cfg.ok
           THEN /\ pc' = "fatal" /\ exit' = "config_error" /\ config' = config
           ELSE IF cfg.goflow2_input_file # DefaultInputFile /\ ~open_ok
           THEN /\ pc' = "fatal" /\ exit' = "open_error" /\ config' = cfg
           ELSE /\ pc' = "reading" /\ exit' = exit /\ config' = cfg
    /\ UNCHANGED <<nread, batch, total_processed, filtered_out,
                   batch_to_write, attempt, site, ndispatch, log>>

\* Entry of write_batch_with_retry(b): the first evaluation of the for range.
CallDispatcher(b, where, lg) ==
    /\ batch_to_write' = b
    /\ site' = where
    /\ ndispatch' = ndispatch + 1
    /\ attempt' = 1
    /\ log' = Append(lg, [ev |-> "hand", d |-> ndispatch + 1, units |-> b,
                          site |-> where])
    /\ IF InRange(1, config.retry_attempts)
       THEN pc' = "write" /\ exit' = exit
       ELSE pc' = "panic" /\ exit' = "panic"

\* lines 194-241: one line of input, up to the next suspension.
next_line(line) ==
    /\ pc = "reading"
    /\ nread' = nread + 1
    /\ LET lg   == Append(log, [ev |-> "line", n |-> nread + 1, line |-> line])
           flow == from_str(line)
       IN  IF TrimIsEmpty(line.text)
           THEN /\ log' = lg
                /\ UNCHANGED <<pc, batch, total_processed, filtered_out,
                               batch_to_write, attempt, site, ndispatch, exit>>
           ELSE IF ~flow.ok
           THEN /\ log' = Append(lg, [ev |-> "warn_parse", n |-> nread + 1])
                /\ UNCHANGED <<pc, batch, total_processed, filtered_out,
                               batch_to_write, attempt, site, ndispatch, exit>>
           ELSE IF ~is_private_ip(flow.src_addr)
           THEN /\ total_processed' = total_processed + 1
                /\ filtered_out' = filtered_out + 1
                /\ log' = lg
                /\ UNCHANGED <<pc, batch, batch_to_write, attempt, site,
                               ndispatch, exit>>
           ELSE LET pushed == Append(batch, flow_to_datapoint(flow))
                IN  /\ total_processed' = total_processed + 1
                    /\ filtered_out' = filtered_out
                    /\ IF IsFull(pushed, config.batch_size)
                       THEN /\ batch' = Drain(pushed).left
                            /\ CallDispatcher(Drain(pushed).taken, "threshold", lg)
                       ELSE /\ batch' = pushed
                            /\ log' = Progress(lg)
                            /\ UNCHANGED <<pc, batch_to_write, attempt, site,
                                           ndispatch, exit>>
    /\ UNCHANGED config

\* line 194: next_line() returns Err, which `?` returns from main.
read_error ==
    /\ pc = "reading"
    /\ pc' = "fatal"
    /\ exit' = "read_error"
    /\ log' = Append(log, [ev |-> "read_error"])
    /\ UNCHANGED <<config, nread, batch, total_processed, filtered_out,
                   batch_to_write, attempt, site, ndispatch>>

\* Variant: the end of the stream reports the summary without the last flush.
end_of_stream_NoFlush ==
    /\ pc = "reading"
    /\ pc' = "stopped"
    /\ exit' = "ok"
    /\ log' = Summary(Append(log, [ev |-> "eof", pending |-> Len(batch)]))
    /\ UNCHANGED <<config, nread, batch, total_processed, filtered_out,
                   batch_to_write, attempt, site, ndispatch>>

\* lines 243-260: next_line() returns None.
end_of_stream ==
    /\ pc = "reading"
    /\ LET lg == Append(log, [ev |-> "eof", pending |-> Len(batch)])
       IN  IF batch # <<>>
           THEN /\ batch' = <<>>
                /\ CallDispatcher(batch, "final", lg)
           ELSE /\ pc' = "stopped"
                /\ exit' = "ok"
                /\ log' = Summary(lg)
                /\ UNCHANGED <<batch, batch_to_write, attempt, site, ndispatch>>
    /\ UNCHANGED <<config, nread, total_processed, filtered_out>>

\* Variant: the loop paces only after a batch that was written.
Return_PaceOnSuccess(res, lg) ==
    LET returned == Append(lg, [ev |-> "return", d |-> ndispatch, res |-> res])
    IN  IF site = "threshold" /\ res.ok
        THEN /\ pc' = "pacing"
             /\ exit' = exit
             /\ log' = Append(returned, [ev |-> "sleep", why |-> "pace",
                                         d |-> ndispatch,
                                         ms |-> PaceDelay(config)])
        ELSE IF site = "threshold"
        THEN /\ pc' = "reading"
             /\ exit' = exit
             /\ log' = returned
        ELSE /\ pc' = "stopped"
             /\ exit' = "ok"
             /\ log' = Summary(returned)

\* write_batch_with_retry has returned res to its caller at `site`.
Return(res, lg) ==
    LET returned == Append(lg, [ev |-> "return", d |-> ndispatch, res |-> res])
    IN  IF site = "threshold"
        THEN /\ pc' = "pacing"
             /\ exit' = exit
             /\ log' = Append(returned, [ev |-> "sleep", why |-> "pace",
                                         d |-> ndispatch,
                                         ms |-> PaceDelay(config)])
        ELSE /\ pc' = "stopped"
             /\ exit' = "ok"
             /\ log' = Summary(returned)

\* lines 123-127: the write call returns Ok.
write_ok ==
    /\ pc = "write"
    /\ Return([ok |-> TRUE],
              Append(log, [ev |-> "write", d |-> ndispatch,
                           units |-> Payload(batch_to_write), ok |-> TRUE]))
    /\ UNCHANGED <<config, nread, batch, total_processed, filtered_out,
                   batch_to_write, attempt, site, ndispatch>>

\* lines 123, 128-134: the write call returns Err(e).
write_err(e) ==
    /\ pc = "write"
    /\ LET lg == Append(log, [ev |-> "write", d |-> ndispatch,
                              units |-> Payload(batch_to_write), ok |-> FALSE,
                              error |-> e])
       IN  IF IsLastAttempt(attempt, config.retry_attempts)
           THEN Return([ok |-> FALSE,
                        err |-> DispatchError(batch_to_write,
                                              config.retry_attempts, e)], lg)
           ELSE /\ pc' = "retry_sleep"
                /\ exit' = exit
                /\ log' = Append(lg, [ev |-> "sleep", why |-> "retry",
                                      d |-> ndispatch,
                                      ms |-> RetryDelay(config)])
    /\ UNCHANGED <<config, nread, batch, total_processed, filtered_out,
                   batch_to_write, attempt, site, ndispatch>>

\* lines 133, 122: the retry sleep ends and the for loop steps.
retry_wake ==
    /\ pc = "retry_sleep"
    /\ attempt' = attempt + 1
    /\ IF InRange(attempt + 1, config.retry_attempts)
       THEN pc' = "write" /\ exit' = exit
       ELSE pc' = "panic" /\ exit' = "panic"
    /\ UNCHANGED <<config, nread, batch, total_processed, filtered_out,
                   batch_to_write, site, ndispatch, log>>

\* lines 225-235: the pacing sleep ends; back to next_line.
pace_wake ==
    /\ pc = "pacing"
    /\ pc' = "reading"
    /\ UNCHANGED <<config, nread, batch, total_processed, filtered_out,
                   batch_to_write, attempt, site, ndispatch, exit>>
    /\ log' = Progress(log)

(***************************************************************************)
(* Inputs: environments, lines, sink errors.                               *)
(***************************************************************************)
Set == <<"s", "e", "t">>

Env(bs, ra, rd) ==
    [INFLUXDB_URL |-> Set, INFLUXDB_TOKEN |-> Set, INFLUXDB_ORG |-> Set,
     INFLUXDB_BUCKET |-> Set, GOFLOW2_INPUT_FILE |-> Missing,
     BATCH_SIZE |-> bs, FLUSH_INTERVAL_SECONDS |-> Missing,
     RETRY_ATTEMPTS |-> ra, RETRY_DELAY_MS |-> rd]

BaseEnv == Env(Missing, Missing, Missing)

\* Environments from which from_env returns Ok.
GoodEnvs ==
    {BaseEnv,
     Env(<<"0">>, <<"1">>, Missing),
     Env(<<"1">>, <<"0">>, Missing),
     Env(<<"1">>, <<"1">>, Missing),
     Env(<<"2">>, <<"2">>, Missing),
     Env(<<"+", "2">>, Missing, <<"5">>),
     [BaseEnv EXCEPT !.GOFLOW2_INPUT_FILE = <<"f">>],
     [BaseEnv EXCEPT !.FLUSH_INTERVAL_SECONDS = <<"0">>]}

\* Environments from which from_env returns Err.
BadEnvs ==
    {[BaseEnv EXCEPT !.INFLUXDB_URL = Missing],
     [BaseEnv EXCEPT !.INFLUXDB_TOKEN = Missing],
     [BaseEnv EXCEPT !.INFLUXDB_ORG = Missing],
     [BaseEnv EXCEPT !.INFLUXDB_BUCKET = Missing],
     Env(<<"-", "1">>, Missing, Missing),
     Env(<<>>, Missing, Missing),
     Env(<<"1", "x">>, Missing, Missing),
     Env(Missing, <<"-", "3">>, Missing),
     Env(Missing, Missing, <<"1", ".", "5">>),
     [BaseEnv EXCEPT !.FLUSH_INTERVAL_SECONDS = <<"t", "e", "n">>]}

EnvSamples == GoodEnvs \cup BadEnvs

\* The environment under which the scope filter is exercised.
FilterEnvs == {Env(<<"1">>, <<"2">>, Missing)}

DottedQuad(a, b, c, d) ==
    Decimal(a) \o <<".">> \o Decimal(b) \o <<".">> \o Decimal(c) \o <<".">>
        \o Decimal(d)

\* Source addresses of the streams explored under Spec.
MainAddrs == {DottedQuad(10, 1, 2, 3), DottedQuad(8, 8, 8, 8)}

\* Source addresses around the edges of the three private ranges.
EdgeAddrs ==
    {DottedQuad(a, b, 0, 0) :
        a \in {9, 10, 11, 171, 172, 173, 191, 192, 193},
        b \in {15, 16, 31, 32, 167, 168, 169}}
    \cup {DottedQuad(a, b, 255, 255) :
            a \in {0, 10, 172, 192, 255}, b \in {0, 31, 168, 255}}

\* Source addresses that are not dotted quads of decimal octets.
OddAddrs ==
    {<<>>,
     <<"1", "0", ".", "1", ".", "2">>,
     <<"1", "0", ".", "1", ".", "2", ".", "3", ".", "4">>,
     <<"1", "0", ".", "1", ".", "2", ".">>,
     <<"1", "0", ".", ".", "2", ".", "3">>,
     <<"1", "0", ".", "1", ".", "2", ".", "2", "5", "6">>,
     <<"1", "0", ".", "1", ".", "2", ".", "0", "3">>,
     <<"1", "0", ".", "1", ".", "2", ".", "3", " ">>,
     <<" ", "1", "0", ".", "1", ".", "2", ".", "3">>,
     <<"1", "0", ".", "1", ".", "2", ".", "x">>,
     <<"1", "0", ".", "1", ".", "2", ".", "3", "/", "8">>,
     <<"1", "9", "2", ".", "1", "6", "8", ".", "1">>,
     <<"1", "7", "2", ".", "1", "6", ".", "0", ".", "1", "0", "0", "0">>,
     <<":", ":", "1">>,
     <<"f", "e", "8", "0", ":", ":", "1">>,
     <<":", ":", "f", "f", "f", "f", ":", "1", "0", ".", "1", ".", "2", ".", "3">>,
     <<"l", "o", "c", "a", "l", "h", "o", "s", "t">>}

FilterAddrs == MainAddrs \cup EdgeAddrs \cup OddAddrs

NoFlow == [ok |-> FALSE, src_addr |-> <<>>, sequence_num |-> 0]

\* The u64 fields of a small, ordinary record.
BaseNumbers ==
    [time_received_ns |-> <<0, 0, 0, 7>>, bytes |-> <<0, 0, 0, 1>>,
     packets |-> <<0, 0, 0, 1>>, time_flow_start_ns |-> <<0, 0, 0, 5>>,
     time_flow_end_ns |-> <<0, 0, 0, 6>>]

\* The decoded record number n with source address a and u64 fields num.
Flow(n, a, num) ==
    [ok |-> TRUE, src_addr |-> a, sequence_num |-> n,
     time_received_ns |-> num.time_received_ns, bytes |-> num.bytes,
     packets |-> num.packets, time_flow_start_ns |-> num.time_flow_start_ns,
     time_flow_end_ns |-> num.time_flow_end_ns]

\* The lines the stream may deliver as its n-th line, with these source
\* addresses: blank ones, one that is not a flow record, and flow records.
Lines(n, addrs) ==
    {[text |-> t, json |-> NoFlow] : t \in {<<>>, <<" ", "\t">>, <<"{">>}}
    \cup {[text |-> <<"{", "}">>, json |-> Flow(n, a, BaseNumbers)] :
             a \in addrs}

\* u64 values at the ends of the range and at the two sides of 2^63.
U64Samples ==
    {U64Zero,
     <<0, 0, 1, 0>>,
     <<32767, 65535, 65535, 65535>>,
     <<32768, 0, 0, 0>>,
     <<65535, 65535, 65535, 65535>>}

\* Records that differ from the ordinary one in one u64 field.
NumberSamples ==
    {[BaseNumbers EXCEPT ![f] = v] : f \in DOMAIN BaseNumbers, v \in U64Samples}

\* The n-th line of a stream of in-scope records with these u64 fields.
TransformLines(n) ==
    {[text |-> <<"{", "}">>, json |-> Flow(n, DottedQuad(10, 1, 2, 3), num)] :
        num \in NumberSamples}

SinkErrors == {"timeout", "unavailable"}

(***************************************************************************)
(* Specifications.                                                         *)
(***************************************************************************)
Next ==
    \/ \E env \in EnvSamples, open_ok \in BOOLEAN : Startup(env, open_ok)
    \/ nread < MaxLines /\ \E line \in Lines(nread + 1, MainAddrs) : next_line(line)
    \/ read_error
    \/ end_of_stream
    \/ write_ok
    \/ \E e \in SinkErrors : write_err(e)
    \/ retry_wake
    \/ pace_wake

Spec == Init /\ [][Next]_vars

\* The same program on streams whose source addresses range over FilterAddrs.
NextFilter ==
    \/ \E env \in FilterEnvs, open_ok \in BOOLEAN : Startup(env, open_ok)
    \/ nread < MaxFilterLines
         /\ \E line \in Lines(nread + 1, FilterAddrs) : next_line(line)
    \/ read_error
    \/ end_of_stream
    \/ write_ok
    \/ \E e \in SinkErrors : write_err(e)
    \/ retry_wake
    \/ pace_wake

SpecFilter == Init /\ [][NextFilter]_vars

\* The same program on streams of in-scope records whose u64 fields range
\* over NumberSamples.
NextTransform ==
    \/ \E env \in FilterEnvs, open_ok \in BOOLEAN : Startup(env, open_ok)
    \/ nread < MaxTransformLines
         /\ \E line \in TransformLines(nread + 1) : next_line(line)
    \/ read_error
    \/ end_of_stream
    \/ write_ok
    \/ \E e \in SinkErrors : write_err(e)
    \/ retry_wake
    \/ pace_wake

SpecTransform == Init /\ [][NextTransform]_vars

\* The environments under which progress reports are explored.
ProgressEnvs == {BaseEnv} \cup FilterEnvs

\* main after ProgressStart lines, each a record from 8.8.8.8: all were
\* counted and filtered out, nothing was batched or handed over.
InitProgress ==
    /\ pc = "reading"
    /\ config \in {from_env(env) : env \in ProgressEnvs}
    /\ nread = ProgressStart
    /\ batch = <<>>
    /\ total_processed = ProgressStart
    /\ filtered_out = ProgressStart
    /\ batch_to_write = <<>>
    /\ attempt = 0
    /\ site = "none"
    /\ ndispatch = 0
    /\ exit = "running"
    /\ log = [i \in 1..ProgressStart |->
                 [ev |-> "line", n |-> i,
                  line |-> [text |-> <<"{", "}">>,
                            json |-> Flow(i, DottedQuad(8, 8, 8, 8),
                                          BaseNumbers)]]]

NextProgress ==
    \/ nread < ProgressStart + MaxProgressLines
         /\ \E line \in Lines(nread + 1, MainAddrs) : next_line(line)
    \/ read_error
    \/ end_of_stream
    \/ write_ok
    \/ \E e \in SinkErrors : write_err(e)
    \/ retry_wake
    \/ pace_wake

SpecProgress == InitProgress /\ [][NextProgress]_vars

(***************************************************************************)
(* Reading the log.                                                        *)
(***************************************************************************)
IsWrite(e, d) == e.ev = "write" /\ e.d = d
IsRetrySleep(e, d) == e.ev = "sleep" /\ e.why = "retry" /\ e.d = d

\* The write calls made for the d-th batch handed to the dispatcher.
Writes(d) == SelectSeq(log, LAMBDA e : IsWrite(e, d))

\* The write calls and retry waits of the d-th batch, in order.
Attempts(d) == SelectSeq(log, LAMBDA e : IsWrite(e, d) \/ IsRetrySleep(e, d))

\* What the dispatcher returned for the d-th batch (none while it runs).
Returns(d) == SelectSeq(log, LAMBDA e : e.ev = "return" /\ e.d = d)

\* The batches handed to the dispatcher, in order.
Handed == SelectSeq(log, LAMBDA e : e.ev = "hand")

\* The non-blank lines read so far that decoded to a flow record.
Decoded ==
    SelectSeq(log, LAMBDA e : /\ e.ev = "line"
                              /\ ~TrimIsEmpty(e.line.text)
                              /\ e.line.json.ok)

RECURSIVE SumLen(_)
SumLen(hs) == IF hs = <<>> THEN 0 ELSE Len(Head(hs).units) + SumLen(Tail(hs))

\* The source address is a dotted quad inside 10.0.0.0/8, 172.16.0.0/12 or
\* 192.168.0.0/16, told by its first two octets.
InScope(a) ==
    LET ip == ParseIpv4(a)
    IN  /\ ip # NoAddr
        /\ \/ ip[1] = 10
           \/ ip[1] = 172 /\ ip[2] \in 16..31
           \/ ip[1] = 192 /\ ip[2] = 168

Running == pc \in {"reading", "write", "retry_sleep", "pacing"}

(***************************************************************************)
(* C1. When the sink fails the first k-1 write calls of a batch and        *)
(* succeeds on call k (1 <= k <= retry_attempts), the dispatcher makes     *)
(* exactly k calls, waits retry_delay_ms once between consecutive calls    *)
(* and not after the successful one, and returns Ok.                       *)
(***************************************************************************)
C1_RetryUntilSuccess ==
    \A d \in 1..ndispatch :
        LET W == Writes(d)
            A == Attempts(d)
        IN  \A k \in 1..Len(W) :
                W[k].ok =>
                    /\ k = Len(W)
                    /\ k <= config.retry_attempts
                    /\ \A j \in 1..(k - 1) : ~W[j].ok
                    /\ Len(A) = 2 * k - 1
                    /\ \A i \in 1..Len(A) :
                           IF i % 2 = 1
                           THEN A[i].ev = "write"
                           ELSE /\ A[i].ev = "sleep"
                                /\ A[i].ms = config.retry_delay_ms
                    /\ Returns(d) = <<[ev |-> "return", d |-> d,
                                       res |-> [ok |-> TRUE]]>>

\* A batch written on the third of three attempts.
C1_Witness ==
    \E d \in 1..ndispatch :
        /\ config.retry_attempts = 3
        /\ Len(Writes(d)) = 3
        /\ Writes(d)[3].ok
        /\ Len(Returns(d)) = 1

(***************************************************************************)
(* C2. Whatever retry_attempts = N the configuration accepts, a batch      *)
(* whose every write call fails gets exactly N calls and then a failure    *)
(* returned to the caller; the process never panics.                       *)
(***************************************************************************)
C2_ExhaustionReturnsFailure ==
    /\ pc # "panic"
    /\ \A d \in 1..ndispatch :
           (Returns(d) # <<>> /\ \A k \in 1..Len(Writes(d)) : ~Writes(d)[k].ok)
               => /\ Len(Writes(d)) = config.retry_attempts
                  /\ ~Returns(d)[1].res.ok

(***************************************************************************)
(* C3. When the loop has stopped, the sizes of the batches handed to the   *)
(* dispatcher add up to the number of in-scope records decoded from the    *)
(* stream.                                                                 *)
(***************************************************************************)
C3_EveryAcceptedRecordHanded ==
    pc = "stopped" =>
        LET D == Decoded
        IN  SumLen(Handed) =
                Cardinality({i \in 1..Len(D) : InScope(D[i].line.json.src_addr)})

\* Stopped after a full batch and a partial one, the first of which failed.
C3_Witness ==
    /\ pc = "stopped"
    /\ Len(Handed) = 2
    /\ SumLen(Handed) = 3
    /\ ~Returns(1)[1].res.ok

(***************************************************************************)
(* C4. Whenever the fullness test runs, the batch it tests is no longer    *)
(* than batch_size: a batch handed over by the threshold path has at most  *)
(* batch_size units, and so has the batch left pending.                    *)
(***************************************************************************)
C4_BatchWithinCapacity ==
    Running =>
        /\ Len(batch) <= config.batch_size
        /\ \A i \in 1..Len(Handed) :
               Handed[i].site = "threshold"
                   => Len(Handed[i].units) <= config.batch_size

(***************************************************************************)
(* C5. At the end of the stream a non-empty pending batch is handed to the *)
(* dispatcher exactly once, before the summary and with no pacing sleep    *)
(* after it; an empty pending batch causes no write call.                  *)
(***************************************************************************)
C5_FinalFlushOnce ==
    LET eofs == {j \in 1..Len(log) : log[j].ev = "eof"}
    IN  \A eof \in eofs :
            LET after   == (eof + 1)..Len(log)
                hands   == {i \in after : log[i].ev = "hand"}
                returns == {i \in after : log[i].ev = "return"}
                writes  == {i \in after : log[i].ev = "write"}
                paces   == {i \in after : log[i].ev = "sleep"
                                             /\ log[i].why = "pace"}
            IN  /\ eofs = {eof}
                /\ paces = {}
                /\ Cardinality(hands) <= 1
                /\ \A i \in hands :
                       /\ i = eof + 1
                       /\ log[i].site = "final"
                       /\ Len(log[i].units) = log[eof].pending
                       /\ log[eof].pending > 0
                /\ log[eof].pending = 0 => hands = {} /\ writes = {}
                /\ pc = "stopped" =>
                       /\ log[Len(log)].ev = "summary"
                       /\ Cardinality(returns) = Cardinality(hands)
                       /\ log[eof].pending > 0 => Cardinality(hands) = 1

\* Stopped after the final flush of a partial batch that needed a retry.
C5_Witness ==
    /\ pc = "stopped"
    /\ Len(Handed) = 2
    /\ Handed[2].site = "final"
    /\ Len(Writes(2)) = 2

(***************************************************************************)
(* C6. No error met while processing records ends the run: the process     *)
(* ends abnormally only for a configuration error at startup or a failure  *)
(* of the input source.                                                    *)
(***************************************************************************)
C6_OnlyStartupAndInputFatal ==
    pc \in {"fatal", "panic"}
        => exit \in {"config_error", "open_error", "read_error"}

(***************************************************************************)
(* C7. A batch whose first write call succeeds gets exactly one write      *)
(* call, and every write call made for a batch sends exactly the units     *)
(* handed over, in the same order.                                         *)
(***************************************************************************)
C7_WritesSendTheBatch ==
    /\ \A d \in 1..ndispatch :
           (Writes(d) # <<>> /\ Writes(d)[1].ok) => Len(Writes(d)) = 1
    /\ LET H == Handed
       IN  \A i \in 1..Len(log) :
               log[i].ev = "write" => log[i].units = H[log[i].d].units

\* A batch of two units sent three times.
C7_Witness ==
    \E d \in 1..ndispatch :
        /\ Len(Writes(d)) = 3
        /\ Len(Handed[d].units) = 2

(***************************************************************************)
(* C8. A decoded record is appended to the batch exactly when its source   *)
(* address is an IPv4 dotted quad in 10.0.0.0/8, 172.16.0.0/12 or          *)
(* 192.168.0.0/16; every other record is counted as filtered and never     *)
(* appears in the pending batch or in a batch handed over.                 *)
(***************************************************************************)
Kept ==
    LET H == Handed
    IN  {batch[i].sequence_num : i \in 1..Len(batch)}
        \cup UNION {{H[h].units[i].sequence_num : i \in 1..Len(H[h].units)} :
                       h \in 1..Len(H)}

C8_ScopeFilter ==
    LET D    == Decoded
        kept == Kept
    IN  /\ \A i \in 1..Len(D) :
               D[i].line.json.sequence_num \in kept
                   <=> InScope(D[i].line.json.src_addr)
        /\ filtered_out =
               Cardinality({i \in 1..Len(D) :
                               ~InScope(D[i].line.json.src_addr)})

\* A record from the top of 172.16.0.0/12 was handed over.
C8_Witness ==
    /\ Len(Handed) = 1
    /\ Handed[1].units[1].src_addr = DottedQuad(172, 31, 255, 255)
    /\ filtered_out = 0

(***************************************************************************)
(* C9. As claimed: the failure returned on exhaustion carries the last     *)
(* sink error and the size of the batch.                                   *)
(***************************************************************************)
Carries(rec, f, v) == f \in DOMAIN rec /\ rec[f] = v

Failures == SelectSeq(log, LAMBDA e : e.ev = "return" /\ ~e.res.ok)

C10_ZeroCapacityRejected ==
    (pc \notin {"start", "fatal"} \/ nread > 0) => config.batch_size >= 1

(***************************************************************************)
(* C11. As claimed: at Stopped the summary reports the number of accepted  *)
(* (in-scope) records and the number of filtered-out or parse-failed       *)
(* lines, so that every non-blank line is in exactly one of the two.       *)
(***************************************************************************)
\* A line of blanks only (told without the program's own test).
Blank(t) == \A i \in 1..Len(t) : t[i] \in {" ", "\t", "\r"}

\* The non-blank lines read so far that did not decode.
Undecoded ==
    SelectSeq(log, LAMBDA e : /\ e.ev = "line"
                              /\ ~Blank(e.line.text)
                              /\ ~e.line.json.ok)

OutOfScope(D) == {i \in 1..Len(D) : ~InScope(D[i].line.json.src_addr)}

C12_BlankLineChangesNothing ==
    [][(/\ Len(log') > Len(log)
        /\ log'[Len(log) + 1].ev = "line"
        /\ Blank(log'[Len(log) + 1].line.text))
         => /\ log' = Append(log, log'[Len(log) + 1])
            /\ pc = "reading" /\ pc' = "reading"
            /\ UNCHANGED <<total_processed, filtered_out, batch,
                           batch_to_write, ndispatch, attempt, exit>>]_vars

\* A whitespace-only line read while a unit is pending.
C12_Witness ==
    /\ log # <<>>
    /\ log[Len(log)].ev = "line"
    /\ log[Len(log)].line.text = <<" ", "\t">>
    /\ Len(batch) = 1
    /\ filtered_out = 1

(***************************************************************************)
(* C13. Every return of the dispatcher to the threshold path, Ok or Err,   *)
(* is followed at once by one sleep of flush_interval_seconds * 1000 ms;   *)
(* there is no other pacing sleep, and while that sleep lasts no line is   *)
(* read: the next step ends the sleep and goes back to reading.            *)
(***************************************************************************)
IsPace(e) == e.ev = "sleep" /\ e.why = "pace"

C13_PacedLog ==
    LET H == Handed
    IN  /\ \A i \in 1..Len(log) :
               (log[i].ev = "return" /\ H[log[i].d].site = "threshold")
                   => /\ i < Len(log)
                      /\ log[i + 1] =
                             [ev |-> "sleep", why |-> "pace", d |-> log[i].d,
                              ms |-> config.flush_interval_seconds * 1000]
        /\ \A i \in 1..Len(log) :
               IsPace(log[i])
                   => /\ i > 1
                      /\ log[i - 1].ev = "return"
                      /\ log[i - 1].d = log[i].d
                      /\ H[log[i].d].site = "threshold"
        /\ pc = "pacing" => IsPace(log[Len(log)])

C13_PaceAfterEveryThresholdFlush ==
    /\ []C13_PacedLog
    /\ [][/\ (Len(log') > Len(log) /\ IsPace(log'[Len(log')]))
               => pc' = "pacing"
          /\ pc = "pacing"
               => /\ pc' = "reading"
                  /\ nread' = nread
                  /\ \A i \in (Len(log) + 1)..Len(log') :
                         log'[i].ev = "progress"
          /\ nread' # nread => pc = "reading"]_vars

\* A line read after the pause that followed a failed threshold flush.
C13_Witness ==
    \E i \in 1..Len(log) :
        /\ log[i].ev = "return"
        /\ ~log[i].res.ok
        /\ i + 2 <= Len(log)
        /\ IsPace(log[i + 1])
        /\ log[i + 2].ev = "line"

(***************************************************************************)
(* C14. A batch handed to the dispatcher is never requeued: while it is    *)
(* dispatched and once the dispatcher has returned, the pending batch is   *)
(* empty; no unit of a handed batch is in the pending batch or in a write  *)
(* call of a later batch; the units of a batch whose dispatch failed are   *)
(* in no successful write.                                                 *)
(***************************************************************************)
Range(q) == {q[i] : i \in 1..Len(q)}

C14_NoRequeue ==
    LET H == Handed
    IN  /\ pc \in {"write", "retry_sleep", "pacing", "stopped"} => batch = <<>>
        /\ \A k \in 1..Len(H) : Range(H[k].units) \cap Range(batch) = {}
        /\ \A j \in 1..Len(log) :
               log[j].ev = "write"
                   => \A k \in 1..Len(H) :
                          k < log[j].d
                              => Range(H[k].units) \cap Range(log[j].units) = {}
        /\ \A i \in 1..Len(log) :
               (log[i].ev = "return" /\ ~log[i].res.ok)
                   => \A j \in 1..Len(log) :
                          (log[j].ev = "write" /\ log[j].ok)
                              => Range(H[log[i].d].units)
                                     \cap Range(log[j].units) = {}

\* A batch whose dispatch failed, and a later batch that was written.
C14_Witness ==
    \E i \in 1..Len(log) :
        /\ log[i].ev = "return"
        /\ ~log[i].res.ok
        /\ \E j \in (i + 1)..Len(log) :
               log[j].ev = "write" /\ log[j].ok /\ log[j].units # <<>>

(***************************************************************************)
(* C15. Writes follow arrival order: the batches handed to the dispatcher  *)
(* so far, concatenated in dispatch order and followed by the pending      *)
(* batch, are the write units of the in-scope records decoded so far, in   *)
(* the order their lines arrived; at most one batch is being dispatched:   *)
(* a batch is handed over only after every earlier one was returned, and   *)
(* every write call is made for the one batch not yet returned.            *)
(***************************************************************************)
RECURSIVE Concat(_)
Concat(hs) == IF hs = <<>> THEN <<>> ELSE Head(hs).units \o Concat(Tail(hs))

Count(lg, kind) == Len(SelectSeq(lg, LAMBDA e : e.ev = kind))

C15_ArrivalOrder ==
    LET D == Decoded
        A == SelectSeq(D, LAMBDA e : InScope(e.line.json.src_addr))
    IN  /\ Concat(Handed) \o batch
               = [i \in 1..Len(A) |-> flow_to_datapoint(A[i].line.json)]
        /\ \A i \in 1..Len(A) : i < Len(A) => A[i].n < A[i + 1].n
        /\ \A i \in 1..Len(log) :
               LET before == SubSeq(log, 1, i - 1)
               IN  /\ log[i].ev = "hand"
                         => /\ log[i].d = Count(before, "hand") + 1
                            /\ Count(before, "return") = Count(before, "hand")
                   /\ log[i].ev \in {"write", "return"}
                         => /\ log[i].d = Count(before, "hand")
                            /\ Count(before, "return") = log[i].d - 1
        /\ pc \in {"write", "retry_sleep"}
               <=> Count(log, "hand") = Count(log, "return") + 1
                      /\ exit = "running"

\* Three in-scope records in two batches, the second one written.
C15_Witness ==
    /\ Len(Handed) = 2
    /\ Len(Concat(Handed)) = 3
    /\ \E j \in 1..Len(log) : log[j].ev = "write" /\ log[j].d = 2 /\ log[j].ok

(***************************************************************************)
(* C16. Termination: with an accepted configuration, an input that was     *)
(* opened and is read without error, and write calls that all return, a    *)
(* run never stops anywhere but in Stopped: in every such state either the *)
(* loop has a next step, or it is in Stopped with the final summary        *)
(* reported last and a successful exit.                                    *)
(***************************************************************************)
C16_RunsToStopped ==
    (config.ok /\ exit \notin {"open_error", "read_error"})
        => \/ ENABLED Next
           \/ /\ pc = "stopped"
              /\ exit = "ok"
              /\ log # <<>>
              /\ log[Len(log)].ev = "summary"

(***************************************************************************)
(* C17. The record transform passes numeric values through as they are:    *)
(* the write unit of every in-scope record has the record's                *)
(* time_received_ns as its timestamp and the record's bytes, packets,      *)
(* time_flow_start_ns and time_flow_end_ns as its fields, over the whole   *)
(* u64 range, with no wrap-around.                                         *)
(***************************************************************************)
Same(u) == [neg |-> FALSE, mag |-> u]

C17_NumbersPassThrough ==
    LET D == Decoded
        A == SelectSeq(D, LAMBDA e : InScope(e.line.json.src_addr))
        U == Concat(Handed) \o batch
    IN  \A i \in 1..Len(U) :
            i <= Len(A)
                => LET r == A[i].line.json
                   IN  /\ U[i].timestamp = Same(r.time_received_ns)
                       /\ U[i].bytes = Same(r.bytes)
                       /\ U[i].packets = Same(r.packets)
                       /\ U[i].time_flow_start_ns = Same(r.time_flow_start_ns)
                       /\ U[i].time_flow_end_ns = Same(r.time_flow_end_ns)

(***************************************************************************)
(* C18. While reading, a progress summary is emitted each time the number  *)
(* of decoded records reaches a positive multiple of 1000, whether that    *)
(* record was in scope or filtered out: whenever the loop is about to read *)
(* a line or has stopped, every positive multiple of 1000 up to            *)
(* total_processed has its progress summary in the log.                    *)
(***************************************************************************)
C18_ProgressAtEveryThousand ==
    pc \in {"reading", "stopped"}
        => \A m \in 1..total_processed :
               m % 1000 = 0
                   => \E i \in 1..Len(log) :
                          log[i].ev = "progress" /\ log[i].processed = m

(***************************************************************************)
(* C19. With capacity C >= 1, every batch handed over by the threshold     *)
(* path has exactly C units, the batch handed over at end of stream has    *)
(* between 1 and C - 1 units, and no empty batch is handed to the          *)
(* dispatcher or sent in a write call.                                     *)
(***************************************************************************)
C19_BatchSizes ==
    (config.ok /\ config.batch_size >= 1)
        => \A i \in 1..Len(log) :
               /\ log[i].ev = "hand"
                     => /\ log[i].site = "threshold"
                              => Len(log[i].units) = config.batch_size
                        /\ log[i].site = "final"
                              => Len(log[i].units) \in 1..(config.batch_size - 1)
                        /\ log[i].units # <<>>
               /\ log[i].ev = "write" => log[i].units # <<>>

\* A full batch of two and a final batch of one, both sent to the sink.
C19_Witness ==
    /\ config.ok
    /\ config.batch_size = 2
    /\ \E i, j \in 1..Len(log) :
           /\ log[i].ev = "hand" /\ log[i].site = "threshold"
           /\ log[j].ev = "hand" /\ log[j].site = "final"
    /\ \E j \in 1..Len(log) : log[j].ev = "write" /\ log[j].d = 2

(***************************************************************************)
(* C20. Whenever the loop is about to read a line, and at Stopped,         *)
(* total_processed = filtered_out + the length of the pending batch + the  *)
(* sizes of all batches handed to the dispatcher so far; filtered_out      *)
(* never exceeds total_processed, and neither counter ever decreases.      *)
(***************************************************************************)
C20_Balance ==
    /\ pc \in {"reading", "stopped"}
           => total_processed = filtered_out + Len(batch) + SumLen(Handed)
    /\ filtered_out <= total_processed

C20_CountersBalance ==
    /\ []C20_Balance
    /\ [][/\ total_processed' >= total_processed
          /\ filtered_out' >= filtered_out]_vars

\* Stopped after one filtered record and two records handed over in two batches.
C20_Witness ==
    /\ pc = "stopped"
    /\ filtered_out = 1
    /\ total_processed = 3
    /\ Len(Handed) = 2

====
